---- MODULE Spec2Model ----
(***************************************************************************)
(* Task lifecycle and admission control of the interactive course agents   *)
(* service: TaskManagerService over the Redis task store, the routes that  *)
(* admit and cancel tasks, and the background worker that drives a task.   *)
(*                                                                         *)
(* Every coroutine is cut at its Redis commands: one action is one Redis   *)
(* command (or one MULTI/EXEC pipeline) together with the local code that  *)
(* runs up to the next await.  The event loop may interleave any two       *)
(* coroutines at these points.                                             *)
(*                                                                         *)
(* The functions of DataProcessingService that merge the generated and the *)
(* aligned paragraphs and anchor a visual in a word slice are operators;   *)
(* MergeSpec and AnchorSpec call them on bounded arguments, HistorySpec    *)
(* runs the completed list up to its cap, and LiveSpec adds the fairness   *)
(* of the workers.  Text is modelled as sequences of characters.           *)
(*                                                                         *)
(* LookupSpec adds the status and result routes to the tasks of one user,  *)
(* PipelineSpec takes the worker's call of the processing service await by *)
(* await, and PdfSpec runs the PDF pipeline from the language model's      *)
(* answer to its result on bounded arguments.                              *)
(*                                                                         *)
(* WordTimestamp in models/base_models.py declares a required word_type    *)
(* that _create_processed_paragraph does not pass, as TaskData declares a  *)
(* video_metadata that create_task does not pass: the model files are of a *)
(* later revision than the services, and both constructions are taken to   *)
(* succeed.                                                                *)
(***************************************************************************)
EXTENDS Integers, Sequences, FiniteSets, TLC

\* ------------------------------------------------------------------ bounds
MaxCreateCalls == 2
MaxCancelCalls == 1

\* --------------------------------------------------------------- constants
\* Settings fields, read from the environment; the model runs the service
\* configured with a per-user limit of 1 and a global limit of 1, so that
\* two requests are enough to meet either limit.
MAX_CONCURRENT_TASKS_PER_USER == 1
MAX_GLOBAL_CONCURRENT_TASKS == 1
\* ltrim(..., 0, 99): the completed list keeps its first 100 entries.
CompletedCap == 100

Users == {"u1", "u2"}
CreateCalls == 1 .. MaxCreateCalls
CancelCalls == 1 .. MaxCancelCalls
\* task_id = f"{user_id}:{uuid4().hex}": unique per admitting call, so the
\* task admitted by create call c is named c.
TaskIds == CreateCalls

\* ------------------------------------------------------------- task models
PENDING == "pending"
PROCESSING == "processing"
COMPLETED == "completed"
FAILED == "failed"
CANCELLED == "cancelled"
TaskStatus == {PENDING, PROCESSING, COMPLETED, FAILED, CANCELLED}

QUEUED == "queued"
TRANSCRIBING == "transcribing"
PROCESSING_LLM == "processing_llm"
ALIGNING == "aligning"
STAGE_COMPLETED == "completed"
TaskStage == {QUEUED, TRANSCRIBING, PROCESSING_LLM, ALIGNING, STAGE_COMPLETED}

NoneStr == "none"
NoneInt == -1

\* The value of hget on a key that does not exist.
NoRecord ==
    [user_id |-> NoneStr, status |-> NoneStr, stage |-> NoneStr,
     progress |-> NoneInt, result |-> NoneStr, error_message |-> NoneStr,
     created_at |-> NoneInt]

\* TaskData as create_task builds it.
NewTaskData(user, now) ==
    [user_id |-> user, status |-> PENDING, stage |-> QUEUED,
     progress |-> 0, result |-> NoneStr, error_message |-> NoneStr,
     created_at |-> now]

\* The statuses on which update_task_status runs the cleanup.
TerminalStatuses == {COMPLETED, FAILED, CANCELLED}
\* The statuses cancel_task accepts.
CancellableStatuses == {PENDING, PROCESSING}

VARIABLES
    task,       \* task:{id} hash, field "data": TaskIds -> TaskData or NoRecord
    ttl,        \* whether key task:{id} carries an expiry
    active,     \* user:{u}:active_tasks sets
    completed,  \* user:{u}:completed_tasks lists, head first
    counter,    \* global:active_tasks_count
    clock,      \* datetime.utcnow() as seen by create_task
    cr,         \* the create requests (route + create_task), one per call
    wk,         \* the background worker of each task
    cn,         \* the cancel requests
    fn          \* a call of a function of DataProcessingService: arguments, result
                \* (in PipelineSpec: the service call of each task's worker)

store == <<task, ttl, active, completed, counter>>
vars == <<task, ttl, active, completed, counter, clock, cr, wk, cn, fn>>

\* ----------------------------------------------------------------- helpers
SeqTake(s, n) == IF Len(s) <= n THEN s ELSE SubSeq(s, 1, n)

\* A variant of ApplyUpdate that does not assign the status.
ApplyUpdateKeepStatus(rec, a) ==
    [rec EXCEPT
        !.stage = IF a.stage # NoneStr THEN a.stage ELSE @,
        !.progress = IF a.progress # NoneInt THEN a.progress ELSE @,
        !.result = IF a.result # NoneStr THEN a.result ELSE @,
        !.error_message = IF a.error_message # NoneStr THEN a.error_message ELSE @]

\* A variant of ApplyUpdate that leaves a terminal status as it is.
ApplyUpdateKeepTerminal(rec, a) ==
    [rec EXCEPT
        !.status = IF @ \in {"completed", "failed", "cancelled"} THEN @ ELSE a.status,
        !.stage = IF a.stage # NoneStr THEN a.stage ELSE @,
        !.progress = IF a.progress # NoneInt THEN a.progress ELSE @,
        !.result = IF a.result # NoneStr THEN a.result ELSE @,
        !.error_message = IF a.error_message # NoneStr THEN a.error_message ELSE @]

\* update_task_status, lines 88-98: the fields set on the record read.
ApplyUpdate(rec, a) ==
    [rec EXCEPT
        !.status = a.status,
        !.stage = IF a.stage # NoneStr THEN a.stage ELSE @,
        !.progress = IF a.progress # NoneInt THEN a.progress ELSE @,
        !.result = IF a.result # NoneStr THEN a.result ELSE @,
        !.error_message = IF a.error_message # NoneStr THEN a.error_message ELSE @]

\* A variant of TaskNotFound that lets every update through.
TaskNotFoundNever(rec) == FALSE

\* update_task_status, lines 83-84: hget returned nothing, 404 is raised.
TaskNotFound(rec) == rec = NoRecord

Args(st, sg, pr, rs, em) ==
    [status |-> st, stage |-> sg, progress |-> pr, result |-> rs, error_message |-> em]

\* str(e) of the exceptions a worker can catch: one raised by the processing
\* service, and the HTTPException(404) of update_task_status.
ServiceError == "service error"
NotFoundError == "404: Task not found"

\* A variant of WorkerArgs whose FAILED update carries no message.
WorkerArgsNoMessage(w) ==
    CASE w.phase = "transcribing" -> Args(PROCESSING, TRANSCRIBING, 10, NoneStr, NoneStr)
      [] w.phase = "llm"          -> Args(PROCESSING, PROCESSING_LLM, 30, NoneStr, NoneStr)
      [] w.phase = "aligning"     -> Args(PROCESSING, ALIGNING, 70, NoneStr, NoneStr)
      [] w.phase = "completed"    -> Args(COMPLETED, STAGE_COMPLETED, 100, "result", NoneStr)
      [] w.phase = "failed"       -> Args(FAILED, NoneStr, 0, NoneStr, NoneStr)

\* The update each phase of generate_paragraphs_with_visuals_task issues;
\* w.exc is the exception the except clause caught.
WorkerArgs(w) ==
    CASE w.phase = "transcribing" -> Args(PROCESSING, TRANSCRIBING, 10, NoneStr, NoneStr)
      [] w.phase = "llm"          -> Args(PROCESSING, PROCESSING_LLM, 30, NoneStr, NoneStr)
      [] w.phase = "aligning"     -> Args(PROCESSING, ALIGNING, 70, NoneStr, NoneStr)
      [] w.phase = "completed"    -> Args(COMPLETED, STAGE_COMPLETED, 100, "result", NoneStr)
      [] w.phase = "failed"       -> Args(FAILED, NoneStr, 0, NoneStr, w.exc)

\* cancel_task: update_task_status(task_id, TaskStatus.CANCELLED)
CancelArgs == Args(CANCELLED, NoneStr, NoneInt, NoneStr, NoneStr)

UpdatePhases == {"transcribing", "llm", "aligning", "completed", "failed"}

\* Where the worker goes after an update that returned normally.
NextPhase(phase) ==
    CASE phase = "transcribing" -> "llm"
      [] phase = "llm"          -> "aligning"
      [] phase = "aligning"     -> "service"
      [] phase = "completed"    -> "done"
      [] phase = "failed"       -> "raised"

\* Where the worker goes when an update raises: the except clause issues
\* the FAILED update; an exception of that update leaves the worker.
RaisePhase(phase) == IF phase = "failed" THEN "raised" ELSE "failed"

\* ------------------------------------------------------------------- state
IdleCreate == [pc |-> "idle", user |-> NoneStr, todo |-> {}, n |-> 0,
               now |-> NoneInt]
IdleWorker == [phase |-> "none", upc |-> "none", local |-> NoRecord, exc |-> NoneStr]
IdleCancel == [pc |-> "idle", task |-> 0, user |-> NoneStr,
               seen |-> NoRecord, local |-> NoRecord]

\* No call of the processing service's functions is under way.
NoCall == [op |-> "none"]

\* The task manager over an empty store, no request made.
IdleInit ==
    /\ task = [t \in TaskIds |-> NoRecord]
    /\ ttl = [t \in TaskIds |-> FALSE]
    /\ active = [u \in Users |-> {}]
    /\ completed = [u \in Users |-> <<>>]
    /\ counter = 0
    /\ clock = 0
    /\ cr = [c \in CreateCalls |-> IdleCreate]
    /\ wk = [t \in TaskIds |-> IdleWorker]
    /\ cn = [c \in CancelCalls |-> IdleCancel]

Init == IdleInit /\ fn = NoCall

\* Records with status PENDING or PROCESSING.
NonTerminal(t) == task[t] # NoRecord /\ task[t].status \in {PENDING, PROCESSING}
UserNonTerminal(u) == {t \in TaskIds : NonTerminal(t) /\ task[t].user_id = u}
AllNonTerminal == {t \in TaskIds : NonTerminal(t)}


\* --------------------------------------------------- the store's pipelines
\* _cleanup_completed_task: srem / lpush + ltrim / decr, one MULTI/EXEC.
CleanupActive(set, t) == set \ {t}
\* A variant of CleanupCompleted: the pipeline without its ltrim.
CleanupCompletedUntrimmed(list, t) == <<t>> \o list
CleanupCompleted(list, t) == SeqTake(<<t>> \o list, CompletedCap)
\* A variant of CleanupCounter: the pipeline without its decr.
CleanupCounterKept(n) == n
CleanupCounter(n) == n - 1

Cleanup(t, u) ==
    /\ active' = [active EXCEPT ![u] = CleanupActive(@, t)]
    /\ completed' = [completed EXCEPT ![u] = CleanupCompleted(@, t)]
    /\ counter' = CleanupCounter(counter)

\* The pipeline of create_task: hset / sadd / incr / expire, one MULTI/EXEC.
AdmitActive(set, t) == set \cup {t}
AdmitCounter(n) == n + 1

Admit(t, u, now) ==
    /\ task' = [task EXCEPT ![t] = NewTaskData(u, now)]
    /\ ttl' = [ttl EXCEPT ![t] = TRUE]
    /\ active' = [active EXCEPT ![u] = AdmitActive(@, t)]
    /\ counter' = AdmitCounter(counter)

\* ------------------------------------------------------------- create_task
\* The per-user check (line 30) on the number of active tasks found.
UserLimitReached(n) == n >= MAX_CONCURRENT_TASKS_PER_USER
\* The global check (line 38) on the counter read.
GlobalLimitReached(n) == n >= MAX_GLOBAL_CONCURRENT_TASKS

EndCreate(call, outcome) ==
    [call EXCEPT !.pc = outcome, !.todo = {}, !.n = 0, !.now = NoneInt]

AfterCount(call, n) ==
    IF UserLimitReached(n)
    THEN EndCreate(call, "denied429")
    ELSE [call EXCEPT !.pc = "get", !.todo = {}, !.n = n]

\* The call starts: get_user_active_tasks reads the user's active set.
\* Calls are numbered in the order they start (the numbers are only names).
CreateSmembers(c, u) ==
    /\ cr[c].pc = "idle"
    /\ \A d \in CreateCalls : d < c => cr[d].pc # "idle"
    /\ LET call == [cr[c] EXCEPT !.user = u]
       IN cr' = [cr EXCEPT ![c] =
                    IF active[u] = {}
                    THEN AfterCount(call, 0)
                    ELSE [call EXCEPT !.pc = "hget", !.todo = active[u], !.n = 0]]
    /\ UNCHANGED <<store, clock, wk, cn, fn>>

\* get_task_status of one member of the set read: counted if the record exists.
CreateHget(c) ==
    /\ cr[c].pc = "hget"
    /\ \E id \in cr[c].todo :
          LET n2 == cr[c].n + (IF task[id] # NoRecord THEN 1 ELSE 0)
              rest == cr[c].todo \ {id}
          IN cr' = [cr EXCEPT ![c] =
                       IF rest = {}
                       THEN AfterCount(cr[c], n2)
                       ELSE [cr[c] EXCEPT !.todo = rest, !.n = n2]]
    /\ UNCHANGED <<store, clock, wk, cn, fn>>

\* get("global:active_tasks_count"), the global check, and the TaskData built.
CreateGet(c) ==
    /\ cr[c].pc = "get"
    /\ IF GlobalLimitReached(counter)
       THEN /\ cr' = [cr EXCEPT ![c] = EndCreate(@, "denied503")]
            /\ UNCHANGED clock
       ELSE /\ cr' = [cr EXCEPT ![c] = [@ EXCEPT !.pc = "pipe", !.now = clock]]
            /\ clock' = clock + 1
    /\ UNCHANGED <<store, wk, cn, fn>>

\* pipe.execute(): the task is admitted; create_task returns to the route.
CreatePipe(c) ==
    /\ cr[c].pc = "pipe"
    /\ Admit(c, cr[c].user, cr[c].now)
    /\ cr' = [cr EXCEPT ![c] = EndCreate(@, "admitted")]
    /\ UNCHANGED <<completed, clock, wk, cn, fn>>

\* The route after create_task returned: background_tasks.add_task(...).
RouterDispatch(c) ==
    /\ cr[c].pc = "admitted"
    /\ cr' = [cr EXCEPT ![c].pc = "done"]
    /\ wk' = [wk EXCEPT ![c] = [phase |-> "transcribing", upc |-> "hget", local |-> NoRecord,
                                   exc |-> NoneStr]]
    /\ UNCHANGED <<store, clock, cn, fn>>

\* The route after create_task returned: reading the uploads raises, or the
\* PDF required by a search mode is missing; the route answers 400/500.
RouterReject(c) ==
    /\ cr[c].pc = "admitted"
    /\ cr' = [cr EXCEPT ![c].pc = "error"]
    /\ UNCHANGED <<store, clock, wk, cn, fn>>

\* ------------------------------------------------------ the worker's updates
\* The update returned: the worker goes on; after the FAILED update the
\* except clause re-raises the exception it caught.
AfterUpdate(w) ==
    [w EXCEPT !.phase = NextPhase(w.phase),
              !.upc = IF NextPhase(w.phase) \in UpdatePhases THEN "hget" ELSE "none",
              !.local = NoRecord]

\* The update raised 404: that exception is the one caught, or, when the
\* update was the FAILED one, the one that leaves the worker.
AfterRaise(w) ==
    [w EXCEPT !.phase = RaisePhase(w.phase),
              !.upc = IF RaisePhase(w.phase) \in UpdatePhases THEN "hget" ELSE "none",
              !.local = NoRecord,
              !.exc = NotFoundError]

\* update_task_status, hget: 404 if the record is absent, else the fields set.
WorkerHget(t) ==
    /\ wk[t].phase \in UpdatePhases
    /\ wk[t].upc = "hget"
    /\ wk' = [wk EXCEPT ![t] =
                 IF TaskNotFound(task[t])
                 THEN AfterRaise(wk[t])
                 ELSE [@ EXCEPT !.upc = "hset",
                                !.local = ApplyUpdate(task[t], WorkerArgs(wk[t]))]]
    /\ UNCHANGED <<store, clock, cr, cn, fn>>

\* update_task_status, hset: the whole record is written back.
WorkerHset(t) ==
    /\ wk[t].upc = "hset"
    /\ task' = [task EXCEPT ![t] = wk[t].local]
    /\ wk' = [wk EXCEPT ![t] =
                 IF wk[t].local.status \in TerminalStatuses
                 THEN [@ EXCEPT !.upc = "cleanup"]
                 ELSE AfterUpdate(wk[t])]
    /\ UNCHANGED <<ttl, active, completed, counter, clock, cr, cn, fn>>

\* update_task_status, the cleanup pipeline of a terminal status.
WorkerCleanup(t) ==
    /\ wk[t].upc = "cleanup"
    /\ Cleanup(t, wk[t].local.user_id)
    /\ wk' = [wk EXCEPT ![t] = AfterUpdate(wk[t])]
    /\ UNCHANGED <<task, ttl, clock, cr, cn, fn>>

\* service.generate_paragraphs_with_visuals(...) returns or raises.
WorkerService(t) ==
    /\ wk[t].phase = "service"
    /\ \/ wk' = [wk EXCEPT ![t] = [@ EXCEPT !.phase = "completed", !.upc = "hget"]]
       \/ wk' = [wk EXCEPT ![t] = [@ EXCEPT !.phase = "failed", !.upc = "hget",
                                             !.exc = ServiceError]]
    /\ UNCHANGED <<store, clock, cr, cn, fn>>

\* ------------------------------------------------------------- cancel_task
\* A variant of CancelAllowed without the owner check.
CancelAllowedAnyOwner(rec, user) ==
    /\ rec # NoRecord
    /\ rec.status \in CancellableStatuses

\* The two checks of cancel_task on the record read (lines 153, 157).
CancelAllowed(rec, user) ==
    /\ rec # NoRecord
    /\ rec.user_id = user
    /\ rec.status \in CancellableStatuses

\* get_task_status and the checks.  Calls are numbered in the order they
\* start; the task id asked for need not name a task that exists.
CancelRead(c, t, u) ==
    /\ cn[c].pc = "idle"
    /\ \A d \in CancelCalls : d < c => cn[d].pc # "idle"
    /\ cn' = [cn EXCEPT ![c] =
                 [@ EXCEPT !.task = t, !.user = u, !.seen = task[t],
                           !.pc = IF CancelAllowed(task[t], u) THEN "hget" ELSE "false"]]
    /\ UNCHANGED <<store, clock, cr, wk, fn>>

\* update_task_status(task_id, CANCELLED), hget.
CancelHget(c) ==
    /\ cn[c].pc = "hget"
    /\ cn' = [cn EXCEPT ![c] =
                 IF TaskNotFound(task[cn[c].task])
                 THEN [@ EXCEPT !.pc = "raised"]
                 ELSE [@ EXCEPT !.pc = "hset",
                                !.local = ApplyUpdate(task[cn[c].task], CancelArgs)]]
    /\ UNCHANGED <<store, clock, cr, wk, fn>>

\* update_task_status(task_id, CANCELLED), hset.
CancelHset(c) ==
    /\ cn[c].pc = "hset"
    /\ task' = [task EXCEPT ![cn[c].task] = cn[c].local]
    /\ cn' = [cn EXCEPT ![c].pc = "cleanup"]
    /\ UNCHANGED <<ttl, active, completed, counter, clock, cr, wk, fn>>

\* update_task_status(task_id, CANCELLED), the cleanup; cancel_task returns True.
CancelCleanup(c) ==
    /\ cn[c].pc = "cleanup"
    /\ Cleanup(cn[c].task, cn[c].local.user_id)
    /\ cn' = [cn EXCEPT ![c] = [@ EXCEPT !.pc = "true", !.local = NoRecord]]
    /\ UNCHANGED <<task, ttl, clock, cr, wk, fn>>

\* ------------------------------------------------------------------ expiry
\* pipe.expire(f"task:{task_id}", 86400): Redis deletes the key when due.
Expire(t) ==
    /\ task[t] # NoRecord
    /\ ttl[t]
    /\ task' = [task EXCEPT ![t] = NoRecord]
    /\ ttl' = [ttl EXCEPT ![t] = FALSE]
    /\ UNCHANGED <<active, completed, counter, clock, cr, wk, cn, fn>>

Next ==
    \/ \E c \in CreateCalls, u \in Users : CreateSmembers(c, u)
    \/ \E c \in CreateCalls : CreateHget(c)
    \/ \E c \in CreateCalls : CreateGet(c)
    \/ \E c \in CreateCalls : CreatePipe(c)
    \/ \E c \in CreateCalls : RouterDispatch(c)
    \/ \E c \in CreateCalls : RouterReject(c)
    \/ \E t \in TaskIds : WorkerHget(t)
    \/ \E t \in TaskIds : WorkerHset(t)
    \/ \E t \in TaskIds : WorkerCleanup(t)
    \/ \E t \in TaskIds : WorkerService(t)
    \/ \E c \in CancelCalls, t \in TaskIds, u \in Users : CancelRead(c, t, u)
    \/ \E c \in CancelCalls : CancelHget(c)
    \/ \E c \in CancelCalls : CancelHset(c)
    \/ \E c \in CancelCalls : CancelCleanup(c)
    \/ \E t \in TaskIds : Expire(t)

Spec == Init /\ [][Next]_vars

\* The steps of the worker of t.  BackgroundTasks runs the coroutine on the
\* event loop and every call it awaits returns or raises, so a worker that
\* can take a step takes one.
WorkerStep(t) ==
    WorkerHget(t) \/ WorkerHset(t) \/ WorkerCleanup(t) \/ WorkerService(t)

\* The same program with all requests made by one user, for the properties
\* of a task's life: the steps are those of Next.
LiveUsers == {"u1"}

LiveNext ==
    \/ \E c \in CreateCalls, u \in LiveUsers : CreateSmembers(c, u)
    \/ \E c \in CreateCalls : CreateHget(c)
    \/ \E c \in CreateCalls : CreateGet(c)
    \/ \E c \in CreateCalls : CreatePipe(c)
    \/ \E c \in CreateCalls : RouterDispatch(c)
    \/ \E c \in CreateCalls : RouterReject(c)
    \/ \E t \in TaskIds : WorkerHget(t)
    \/ \E t \in TaskIds : WorkerHset(t)
    \/ \E t \in TaskIds : WorkerCleanup(t)
    \/ \E t \in TaskIds : WorkerService(t)
    \/ \E c \in CancelCalls, t \in TaskIds, u \in LiveUsers : CancelRead(c, t, u)
    \/ \E c \in CancelCalls : CancelHget(c)
    \/ \E c \in CancelCalls : CancelHset(c)
    \/ \E c \in CancelCalls : CancelCleanup(c)
    \/ \E t \in TaskIds : Expire(t)

LiveSpec ==
    Init /\ [][LiveNext]_vars /\ \A t \in TaskIds : WF_vars(WorkerStep(t))


\* ============================================== DataProcessingService: text
\* Text is a sequence of characters.  The characters used: lower and upper
\* case letters, two members of string.punctuation, and the space.
Punctuation == {".", ","}
Whitespace == {" "}

\* str.lower() on one character.
Lower(ch) ==
    CASE ch = "A" -> "a"
      [] ch = "B" -> "b"
      [] OTHER -> ch

\* _clean_text: punctuation removed, then lowercased.
CleanText(text) ==
    LET kept == SelectSeq(text, LAMBDA ch : ch \notin Punctuation)
    IN  [i \in 1 .. Len(kept) |-> Lower(kept[i])]

\* str.strip(): leading and trailing whitespace removed.
RECURSIVE LStrip(_)
LStrip(text) ==
    IF text # <<>> /\ Head(text) \in Whitespace THEN LStrip(Tail(text)) ELSE text
RECURSIVE RStrip(_)
RStrip(text) ==
    IF text # <<>> /\ text[Len(text)] \in Whitespace
    THEN RStrip(SubSeq(text, 1, Len(text) - 1))
    ELSE text
Strip(text) == RStrip(LStrip(text))

\* str.split(" "): cut at every single space; "" gives [""].
RECURSIVE Split(_)
Split(text) ==
    LET spaces == {i \in 1 .. Len(text) : text[i] = " "}
    IN  IF spaces = {}
        THEN <<text>>
        ELSE LET i == CHOOSE j \in spaces : \A k \in spaces : j <= k
             IN  <<SubSeq(text, 1, i - 1)>> \o Split(SubSeq(text, i + 1, Len(text)))

\* " ".join(tokens), used to build the start sentences.
RECURSIVE Join(_)
Join(tokens) ==
    IF tokens = <<>> THEN <<>>
    ELSE IF Len(tokens) = 1 THEN tokens[1]
    ELSE tokens[1] \o <<" ">> \o Join(Tail(tokens))

\* A Python slice s[from:to] with 0 <= from: indices clipped to the list.
PySlice(s, from, to) ==
    SubSeq(s, from + 1, IF to < Len(s) THEN to ELSE Len(s))

\* ======================================== DataProcessingService: anchoring
\* _prepare_visual_start_words
PrepareVisualStartWords(start_sentence) ==
    LET visual_start_words == Split(CleanText(start_sentence))
    IN  [i \in 1 .. Len(visual_start_words) |-> Strip(visual_start_words[i])]

\* cleaned_visual_words[:2]
KeyTokens == 2

\* A variant of WordsMatchAtPosition that finds a match at every index.
WordsMatchAlways(cleaned_visual_words, paragraph_words, index) == TRUE

\* _words_match_at_position, index counted from 0.
WordsMatchAtPosition(cleaned_visual_words, paragraph_words, index) ==
    LET key == PySlice(cleaned_visual_words, 0, KeyTokens)
        window == PySlice(paragraph_words, index, index + Len(key))
        seq_words == [i \in 1 .. Len(window) |-> Strip(CleanText(window[i].text))]
    IN  key = seq_words

\* The indices range(n) runs over.
PyRange(n) == 0 .. (n - 1)

\* range(len(paragraph_words) - len(cleaned_visual_words) + 1), line 570.
ScanRange(paragraph_words, cleaned_visual_words) ==
    PyRange(Len(paragraph_words) - Len(cleaned_visual_words) + 1)

\* VisualContent(type, content, start_time=paragraph_words[index].start, ...)
AnchoredVisual(visual_model, word) ==
    [content |-> visual_model.content, start_time |-> word.start]

\* _map_visual_to_word_timestamps: the visual at the first index that
\* matches, as a list of one; the empty list stands for None.
MapVisualToWordTimestamps(visual_model, paragraph_words) ==
    LET cleaned_visual_words == PrepareVisualStartWords(visual_model.start_sentence)
        hits == {index \in ScanRange(paragraph_words, cleaned_visual_words) :
                    WordsMatchAtPosition(cleaned_visual_words, paragraph_words, index)}
    IN  IF hits = {}
        THEN <<>>
        ELSE LET index == CHOOSE i \in hits : \A j \in hits : i <= j
             IN  <<AnchoredVisual(visual_model, paragraph_words[index + 1])>>

\* ------------------------------------------------ anchoring: bounded inputs
MaxWords == 3
MaxTokens == 3

\* word.text as the transcription gives it, and the tokens the model writes
\* into start_sentence: capitals, punctuation and stray spaces included.
RawWordTexts == {<<"a">>, <<"B", ".">>, <<" ", "c">>}
RawTokens == {<<"A">>, <<"b", ",">>, <<"c">>}

SeqsUpTo(S, n) == UNION {[1 .. k -> S] : k \in 0 .. n}

\* The word slice of a paragraph: WordTranscription(text, start, end), one
\* time unit per word.
WordsOf(texts) ==
    [i \in 1 .. Len(texts) |-> [text |-> texts[i], start |-> i - 1, end |-> i]]

\* LLMGeneratedVisualItem: the fields anchoring reads.
VisualItem(start_sentence) == [start_sentence |-> start_sentence, content |-> "visual"]

AnchorInit ==
    /\ IdleInit
    /\ fn \in {[op |-> "anchor",
                 paragraph_words |-> WordsOf(texts),
                 visual_model |-> VisualItem(Join(tokens)),
                 done |-> FALSE,
                 out |-> <<>>] :
                    texts \in SeqsUpTo(RawWordTexts, MaxWords),
                    tokens \in SeqsUpTo(RawTokens, MaxTokens)}

\* _map_visual_to_word_timestamps(visual_model, paragraph_words) is called.
AnchorCall ==
    /\ fn.op = "anchor"
    /\ ~fn.done
    /\ fn' = [fn EXCEPT !.done = TRUE,
                        !.out = MapVisualToWordTimestamps(fn.visual_model,
                                                          fn.paragraph_words)]
    /\ UNCHANGED <<store, clock, cr, wk, cn>>

AnchorSpec == AnchorInit /\ [][AnchorCall]_vars

\* ============================================ DataProcessingService: merge
\* What a function gives back: the exception it raised, or its value.
Returns(value) == [raised |-> NoneStr, value |-> value]
Raises(exception) == [raised |-> exception, value |-> <<>>]

\* The exceptions of the merge: the one of line 460, and the AttributeError
\* of reading paragraph_words, start or end of None.
LengthError == "Generated paragraphs and aligned paragraphs must be matched in length."
AttributeError == "AttributeError"

\* A variant of LengthsDiffer that never finds a difference.
LengthsDifferNever(aligned_results, paragraphs) == FALSE

\* The test of lines 457-459.
LengthsDiffer(aligned_results, paragraphs) == Len(aligned_results) # Len(paragraphs)

\* A variant of FindAlignedParagraph that takes the index as a position.
FindAlignedParagraphByPosition(paragraph_index, aligned_results) ==
    IF paragraph_index + 1 \in DOMAIN aligned_results
    THEN <<aligned_results[paragraph_index + 1]>>
    ELSE <<>>

\* _find_aligned_paragraph: next(...) over the matches, None (the empty
\* list) if there is none.
FindAlignedParagraph(paragraph_index, aligned_results) ==
    LET hits == {i \in DOMAIN aligned_results :
                    aligned_results[i].paragraph_index = paragraph_index}
    IN  IF hits = {}
        THEN <<>>
        ELSE <<aligned_results[CHOOSE i \in hits : \A j \in hits : i <= j]>>

\* _process_paragraph_visuals
ProcessParagraphVisuals(paragraph, aligned_paragraph) ==
    IF paragraph.visuals # <<>>
    THEN IF aligned_paragraph = <<>>
         THEN Raises(AttributeError)
         ELSE Returns(MapVisualToWordTimestamps(paragraph.visuals[1],
                                                aligned_paragraph[1].paragraph_words))
    ELSE Returns(<<>>)

\* WordTimestamp(word=word.text, start=word.start, end=word.end)
NewWordTimestamp(word) == [word |-> word.text, start |-> word.start, end |-> word.end]

\* _create_processed_paragraph
CreateProcessedParagraph(paragraph, aligned_paragraph, processed_visual_model) ==
    IF aligned_paragraph = <<>>
    THEN Raises(AttributeError)
    ELSE LET aligned == aligned_paragraph[1]
         IN  Returns([paragraph_id |-> paragraph.paragraph_index + 1,
                      text_content |-> paragraph.paragraph_text,
                      start_time |-> aligned.start,
                      end_time |-> aligned.end,
                      keywords |-> paragraph.keywords,
                      word_timestamps |->
                          [i \in DOMAIN aligned.paragraph_words |->
                              NewWordTimestamp(aligned.paragraph_words[i])],
                      visual_content |-> processed_visual_model])

\* The body of the loop of lines 464-474 for one generated paragraph.
MergeParagraph(paragraph, aligned_results) ==
    LET aligned_paragraph ==
            FindAlignedParagraph(paragraph.paragraph_index, aligned_results)
        processed_visual_model == ProcessParagraphVisuals(paragraph, aligned_paragraph)
    IN  IF processed_visual_model.raised # NoneStr
        THEN processed_visual_model
        ELSE CreateProcessedParagraph(paragraph, aligned_paragraph,
                                      processed_visual_model.value)

\* _merge_video_alignment_with_generated_paragraphs: the first exception of
\* the loop leaves the function; otherwise combined_result is returned.
MergeVideoAlignment(aligned_results, paragraphs) ==
    IF LengthsDiffer(aligned_results, paragraphs)
    THEN Raises(LengthError)
    ELSE LET each == [i \in DOMAIN paragraphs |->
                         MergeParagraph(paragraphs[i], aligned_results)]
             failed == {i \in DOMAIN paragraphs : each[i].raised # NoneStr}
         IN  IF failed # {}
             THEN Raises(each[CHOOSE i \in failed : \A j \in failed : i <= j].raised)
             ELSE Returns([i \in DOMAIN paragraphs |-> each[i].value])

\* ---------------------------------------------------- merge: bounded inputs
MaxParagraphs == 2
ParagraphIndexes == 0 .. (MaxParagraphs - 1)

\* Word slices: empty, one word, two words; start sentences: one whose key
\* is the two-word slice, one that occurs in no slice.
MergeSlices == {<<>>, <<(<<"a">>)>>, <<(<<"a">>), (<<"B", ".">>)>>}
MergeSentences == {Join(<<(<<"A">>), (<<"b", ",">>)>>), Join(<<(<<"c">>)>>)}
VisualChoices == {<<>>} \cup {<<VisualItem(sentence)>> : sentence \in MergeSentences}

\* LLMParagraphWithVisual: paragraph_index, paragraph_text, keywords, visuals
\* (the empty list for None).
GeneratedParagraph(index, visuals) ==
    [paragraph_index |-> index,
     paragraph_text |-> <<"text of paragraph", index>>,
     keywords |-> <<[word |-> "keyword", type |-> "main"]>>,
     visuals |-> visuals]

\* AlignedParagraph: paragraph_index, start, end, paragraph_words; the
\* timing tells the members of the list apart.
AlignedParagraphAt(position, index, texts) ==
    [paragraph_index |-> index,
     start |-> position,
     end |-> position + 1,
     paragraph_words |-> WordsOf(texts)]

\* The generated paragraphs carry distinct indices, in any order.
IndexLists ==
    {ix \in SeqsUpTo(ParagraphIndexes, MaxParagraphs) :
        \A i, j \in DOMAIN ix : ix[i] = ix[j] => i = j}
GeneratedLists ==
    UNION {{[i \in DOMAIN ix |-> GeneratedParagraph(ix[i], vs[i])] :
                vs \in [DOMAIN ix -> VisualChoices]} : ix \in IndexLists}
\* The aligned paragraphs are whatever the alignment service returned.
AlignedLists ==
    UNION {{[i \in 1 .. k |-> AlignedParagraphAt(i, ix[i], sl[i])] :
                ix \in [1 .. k -> ParagraphIndexes], sl \in [1 .. k -> MergeSlices]} :
           k \in 0 .. MaxParagraphs}

MergeInit ==
    /\ IdleInit
    /\ fn \in {[op |-> "merge",
                 paragraphs |-> generated,
                 aligned_results |-> aligned,
                 done |-> FALSE,
                 out |-> Returns(<<>>)] :
                    generated \in GeneratedLists, aligned \in AlignedLists}

\* _merge_video_alignment_with_generated_paragraphs(...) is called.
MergeCall ==
    /\ fn.op = "merge"
    /\ ~fn.done
    /\ fn' = [fn EXCEPT !.done = TRUE,
                        !.out = MergeVideoAlignment(fn.aligned_results, fn.paragraphs)]
    /\ UNCHANGED <<store, clock, cr, wk, cn>>

MergeSpec == MergeInit /\ [][MergeCall]_vars

\* ================================== the completed list near its cap of 100
\* The number of cleanups followed from each starting list.
MaxPushes == 3

\* A completed list after n tasks of one user finished one after the other,
\* the task ids numbered in that order: the newest at the head.
HistoryAfter(n) == [i \in 1 .. n |-> n + 1 - i]

\* The ids cleaned up next: tasks that finish later, and the oldest task
\* once more (a task cleaned up for a second terminal update).
NextFinished == {1} \cup ((CompletedCap + 1) .. (CompletedCap + MaxPushes - 1))

HistoryInit ==
    /\ IdleInit
    /\ fn \in {[op |-> "cleanup", list |-> HistoryAfter(n), pushes |-> 0, last |-> 0] :
                    n \in 0 .. CompletedCap}

\* The lpush and ltrim of _cleanup_completed_task for task t.
HistoryCleanup(t) ==
    /\ fn.op = "cleanup"
    /\ fn.pushes < MaxPushes
    /\ fn' = [fn EXCEPT !.list = CleanupCompleted(@, t),
                        !.pushes = @ + 1,
                        !.last = t]
    /\ UNCHANGED <<store, clock, cr, wk, cn>>

HistoryNext == \E t \in NextFinished : HistoryCleanup(t)

HistorySpec == HistoryInit /\ [][HistoryNext]_vars

\* ===================================================== routes: the lookups
\* What a route answers: the status code, and the body as a list of one (the
\* empty list for the body of an HTTPException, which carries only a detail).
Response(status_code, body) == [status_code |-> status_code, body |-> body]

\* A variant of AccessDenied that lets every caller through.
AccessDeniedNever(task_data, user_id) == FALSE

\* if task_data.user_id != user_id: raise HTTPException(status_code=403, ...)
AccessDenied(task_data, user_id) == task_data.user_id # user_id

\* get_task_status of the router on the record its hget returned.
GetTaskStatusRoute(task_data, user_id) ==
    IF task_data = NoRecord THEN Response("404", <<>>)
    ELSE IF AccessDenied(task_data, user_id) THEN Response("403", <<>>)
    ELSE Response("200", <<task_data>>)

\* get_task_result of the router on the record its hget returned.
GetTaskResultRoute(task_data, user_id) ==
    IF task_data = NoRecord THEN Response("404", <<>>)
    ELSE IF AccessDenied(task_data, user_id) THEN Response("403", <<>>)
    ELSE IF task_data.status # COMPLETED THEN Response("400", <<>>)
    ELSE Response("200", <<[status |-> task_data.status, result |-> task_data.result]>>)

\* GET /{task_id}/status by user u: one hget and the checks on what it read.
GetTaskStatusCall(t, u) ==
    /\ fn = NoCall
    /\ fn' = [op |-> "status", task |-> t, user |-> u,
              out |-> GetTaskStatusRoute(task[t], u)]
    /\ UNCHANGED <<store, clock, cr, wk, cn>>

\* GET /{task_id}/result by user u.
GetTaskResultCall(t, u) ==
    /\ fn = NoCall
    /\ fn' = [op |-> "result", task |-> t, user |-> u,
              out |-> GetTaskResultRoute(task[t], u)]
    /\ UNCHANGED <<store, clock, cr, wk, cn>>

\* The tasks of one user run as in LiveNext until some user makes a lookup;
\* a run is followed up to the answer of that lookup.
LookupNext ==
    \/ fn = NoCall /\ LiveNext
    \/ \E t \in TaskIds, u \in Users : GetTaskStatusCall(t, u)
    \/ \E t \in TaskIds, u \in Users : GetTaskResultCall(t, u)

LookupSpec == Init /\ [][LookupNext]_vars

\* ============================ the worker's call of the processing service
\* generate_paragraphs_with_visuals awaits its collaborators one after the
\* other; the merge is the synchronous code after the last await.
SAVE_VIDEO == "save_video_file"
EXTRACT_TEXT == "extract_text"
GENERATE == "ask_search_agent"
ALIGN == "align_paragraph_with_media"
MERGE == "merge_video_alignment_with_generated_paragraphs"

\* A variant of AwaitedAfter that starts the alignment together with the
\* paragraph generation.
AwaitedAfterEager(step) ==
    CASE step = SAVE_VIDEO   -> {EXTRACT_TEXT}
      [] step = EXTRACT_TEXT -> {GENERATE, ALIGN}
      [] step = GENERATE     -> {}
      [] step = ALIGN        -> {}

\* The calls awaited once the awaited call `step` has returned.
AwaitedAfter(step) ==
    CASE step = SAVE_VIDEO   -> {EXTRACT_TEXT}
      [] step = EXTRACT_TEXT -> {GENERATE}
      [] step = GENERATE     -> {ALIGN}
      [] step = ALIGN        -> {}

\* The call of task t's worker: the collaborator calls in flight, and the
\* steps that have returned, in the order they returned.
ServiceCallOf(inflight, log) ==
    [op |-> "generate_paragraphs_with_visuals", inflight |-> inflight, log |-> log]

PipelineInit == IdleInit /\ fn = [t \in TaskIds |-> NoCall]

\* service.generate_paragraphs_with_visuals(...) is called and reaches its
\* first await.
ServiceStart(t) ==
    /\ wk[t].phase = "service"
    /\ fn[t] = NoCall
    /\ fn' = [fn EXCEPT ![t] = ServiceCallOf({SAVE_VIDEO}, <<>>)]
    /\ UNCHANGED <<store, clock, cr, wk, cn>>

\* An awaited call returns.  The next one is awaited; after the last one the
\* merge runs, and either raises (the worker goes to its except clause) or
\* gives the result, with which the worker issues the COMPLETED update.
ServiceReturns(t) ==
    /\ wk[t].phase = "service"
    /\ fn[t] # NoCall
    /\ \E step \in fn[t].inflight :
          LET inflight == (fn[t].inflight \ {step}) \cup AwaitedAfter(step)
              log == Append(fn[t].log, step)
          IN  IF inflight # {}
              THEN /\ fn' = [fn EXCEPT ![t] = ServiceCallOf(inflight, log)]
                   /\ UNCHANGED wk
              ELSE \/ /\ fn' = [fn EXCEPT ![t] = ServiceCallOf({}, Append(log, MERGE))]
                      /\ wk' = [wk EXCEPT ![t] =
                                   [@ EXCEPT !.phase = "completed", !.upc = "hget"]]
                   \/ /\ fn' = [fn EXCEPT ![t] = ServiceCallOf({}, log)]
                      /\ wk' = [wk EXCEPT ![t] =
                                   [@ EXCEPT !.phase = "failed", !.upc = "hget",
                                             !.exc = ServiceError]]
    /\ UNCHANGED <<store, clock, cr, cn>>

\* An awaited call raises: the exception leaves the service call.
ServiceRaises(t) ==
    /\ wk[t].phase = "service"
    /\ fn[t] # NoCall
    /\ fn[t].inflight # {}
    /\ fn' = [fn EXCEPT ![t] = ServiceCallOf({}, fn[t].log)]
    /\ wk' = [wk EXCEPT ![t] = [@ EXCEPT !.phase = "failed", !.upc = "hget",
                                          !.exc = ServiceError]]
    /\ UNCHANGED <<store, clock, cr, cn>>

\* The tasks of one user, the service call of each worker taken await by
\* await in place of WorkerService.
PipelineNext ==
    \/ \E c \in CreateCalls, u \in LiveUsers : CreateSmembers(c, u)
    \/ \E c \in CreateCalls : CreateHget(c)
    \/ \E c \in CreateCalls : CreateGet(c)
    \/ \E c \in CreateCalls : CreatePipe(c)
    \/ \E c \in CreateCalls : RouterDispatch(c)
    \/ \E c \in CreateCalls : RouterReject(c)
    \/ \E t \in TaskIds : WorkerHget(t)
    \/ \E t \in TaskIds : WorkerHset(t)
    \/ \E t \in TaskIds : WorkerCleanup(t)
    \/ \E t \in TaskIds : ServiceStart(t)
    \/ \E t \in TaskIds : ServiceReturns(t)
    \/ \E t \in TaskIds : ServiceRaises(t)
    \/ \E c \in CancelCalls, t \in TaskIds, u \in LiveUsers : CancelRead(c, t, u)
    \/ \E c \in CancelCalls : CancelHget(c)
    \/ \E c \in CancelCalls : CancelHset(c)
    \/ \E c \in CancelCalls : CancelCleanup(c)
    \/ \E t \in TaskIds : Expire(t)

PipelineSpec == PipelineInit /\ [][PipelineNext]_vars

\* ================================= DataProcessingService: the PDF visuals
\* _find_matching_visual (and its copy _find_matching_visual_with_copyright):
\* next(...) over the visuals with that index, None (the empty list) if none.
FindMatchingVisual(visual_index, processed_visuals) ==
    LET hits == {i \in DOMAIN processed_visuals :
                    processed_visuals[i].visual_index = visual_index}
    IN  IF hits = {}
        THEN <<>>
        ELSE <<processed_visuals[CHOOSE i \in hits : \A j \in hits : i <= j]>>

\* _create_aligned_paragraph_with_visual: aligned_visual.type of None raises.
CreateAlignedParagraphWithVisual(paragraph, aligned_visual) ==
    IF aligned_visual = <<>>
    THEN Raises(AttributeError)
    ELSE Returns([paragraph_index |-> paragraph.paragraph_index,
                  paragraph_text |-> paragraph.paragraph_text,
                  keywords |-> paragraph.keywords,
                  visuals |-> <<[start_sentence |->
                                     paragraph.visual_reference[1].start_sentence,
                                 content |-> aligned_visual[1].content]>>])

\* if paragraph.visual_reference is not None
HasVisualReference(paragraph) == paragraph.visual_reference # <<>>

\* _match_paragraphs_to_extracted_visuals (and its copy for the copyright
\* variant): the loop appends inside the if; the first exception leaves.
MatchParagraphsToExtractedVisuals(paragraphs, processed_visuals) ==
    LET referring == SelectSeq(paragraphs, HasVisualReference)
        each == [i \in DOMAIN referring |->
                    CreateAlignedParagraphWithVisual(
                        referring[i],
                        FindMatchingVisual(referring[i].visual_reference[1].visual_index,
                                           processed_visuals))]
        failed == {i \in DOMAIN referring : each[i].raised # NoneStr}
    IN  IF failed # {}
        THEN Raises(each[CHOOSE i \in failed : \A j \in failed : i <= j].raised)
        ELSE Returns([i \in DOMAIN referring |-> each[i].value])

\* _create_paragraph_items
CreateParagraphItems(paragraphs) ==
    [i \in DOMAIN paragraphs |->
        [text |-> paragraphs[i].paragraph_text,
         paragraph_index |-> paragraphs[i].paragraph_index]]

\* The words the alignment collaborator finds for every paragraph here.
SpokenWords == <<(<<"a">>), (<<"B", ".">>)>>

\* _align_with_video_timestamps: the collaborator answers with one aligned
\* paragraph for each item it was given, under the item's index.
AlignWithVideoTimestamps(paragraph_items) ==
    [i \in DOMAIN paragraph_items |->
        AlignedParagraphAt(i, paragraph_items[i].paragraph_index, SpokenWords)]

\* extract_and_align_pdf_visuals from the language model's answer on: match,
\* paragraph items, alignment, merge.
ExtractAndAlignPdfVisuals(paragraphs, processed_visuals) ==
    LET aligned_paragraphs == MatchParagraphsToExtractedVisuals(paragraphs, processed_visuals)
    IN  IF aligned_paragraphs.raised # NoneStr
        THEN aligned_paragraphs
        ELSE MergeVideoAlignment(
                 AlignWithVideoTimestamps(CreateParagraphItems(aligned_paragraphs.value)),
                 aligned_paragraphs.value)

\* ----------------------------------------------- PDF visuals: bounded inputs
MaxVisuals == 2
VisualIndexes == 0 .. (MaxVisuals - 1)

\* LLMVisualReference, as a list of one, or the empty list for None.
ReferenceChoices ==
    {<<>>} \cup {<<[visual_index |-> k, start_sentence |-> sentence]>> :
                    k \in VisualIndexes, sentence \in MergeSentences}

\* LLMParagraphWithVisualRef
ReferringParagraph(index, visual_reference) ==
    [paragraph_index |-> index,
     paragraph_text |-> <<"text of paragraph", index>>,
     keywords |-> <<[word |-> "keyword", type |-> "main"]>>,
     visual_reference |-> visual_reference]

\* StoredVisualContent: the fields the matching reads.
StoredVisual(visual_index) ==
    [visual_index |-> visual_index, content |-> <<"visual", visual_index>>]

ReferringLists ==
    UNION {{[i \in DOMAIN ix |-> ReferringParagraph(ix[i], refs[i])] :
                refs \in [DOMAIN ix -> ReferenceChoices]} : ix \in IndexLists}
StoredVisualLists ==
    {[i \in DOMAIN ks |-> StoredVisual(ks[i])] : ks \in SeqsUpTo(VisualIndexes, MaxVisuals)}

PdfInit ==
    /\ IdleInit
    /\ fn \in {[op |-> "pdf",
                 paragraphs |-> paragraphs,
                 processed_visuals |-> visuals,
                 done |-> FALSE,
                 out |-> Returns(<<>>)] :
                    paragraphs \in ReferringLists, visuals \in StoredVisualLists}

\* The pipeline runs from the language model's answer to its result.
PdfCall ==
    /\ fn.op = "pdf"
    /\ ~fn.done
    /\ fn' = [fn EXCEPT !.done = TRUE,
                        !.out = ExtractAndAlignPdfVisuals(fn.paragraphs,
                                                          fn.processed_visuals)]
    /\ UNCHANGED <<store, clock, cr, wk, cn>>

PdfSpec == PdfInit /\ [][PdfCall]_vars

\* ================================================================== claims
Admitted(t) == cr[t].pc \in {"admitted", "done", "error"}
Cancelled(t) == \E c \in CancelCalls : cn[c].pc = "true" /\ cn[c].task = t
Indexed == {p \in Users \X TaskIds : p[2] \in active[p[1]]}
InList(list, t) == \E i \in 1 .. Len(list) : list[i] = t

\* C1: for every interleaving of create_task calls of one user, the number of
\* that user's tasks with status PENDING or PROCESSING never exceeds
\* MAX_CONCURRENT_TASKS_PER_USER.
C1_PerUserLimit ==
    \A u \in Users : Cardinality(UserNonTerminal(u)) <= MAX_CONCURRENT_TASKS_PER_USER

\* C2: for every interleaving of create_task calls across users, the number of
\* tasks with status PENDING or PROCESSING in the whole store never exceeds
\* MAX_GLOBAL_CONCURRENT_TASKS.
C2_GlobalLimit ==
    Cardinality(AllNonTerminal) <= MAX_GLOBAL_CONCURRENT_TASKS

\* C3: in every reachable state the global counter equals the number of task
\* ids held in the per-user active sets, and every id in an active set is
\* that of a task whose initial record an admission wrote for that user.
C3_AdmissionUnit ==
    /\ counter = Cardinality(Indexed)
    /\ \A u \in Users : \A t \in active[u] : Admitted(t) /\ cr[t].user = u

\* C4: once a record has status COMPLETED, FAILED or CANCELLED, no later step
\* changes the status of that record to a different value.
C4_TerminalFinal ==
    [][\A t \in TaskIds :
          (task[t] # NoRecord /\ task[t].status \in TerminalStatuses /\ task'[t] # NoRecord)
              => task'[t].status = task[t].status]_vars

\* C5: cancel returns true only if the record it read at the call existed,
\* belonged to the caller and was PENDING or PROCESSING; in every other case
\* it returns false in that same step, without raising, and leaves the
\* record, the active index, the completed list and the counter unchanged,
\* however the worker's updates interleave.
C5_CancelContract ==
    [][\A c \in CancelCalls :
          /\ (cn[c].pc = "idle" /\ cn'[c].pc # "idle") =>
                LET rec == task[cn'[c].task]
                    ok == /\ rec # NoRecord
                          /\ rec.user_id = cn'[c].user
                          /\ rec.status \in {PENDING, PROCESSING}
                IN IF ok
                   THEN cn'[c].pc = "hget"
                   ELSE cn'[c].pc = "false" /\ UNCHANGED store
          /\ cn'[c].pc = "true" =>
                /\ cn'[c].seen # NoRecord
                /\ cn'[c].seen.user_id = cn'[c].user
                /\ cn'[c].seen.status \in {PENDING, PROCESSING}
          /\ cn[c].pc = "false" => cn'[c] = cn[c]]_vars

\* C5 witness: a cancel returned true for a task its worker had already moved
\* to PROCESSING.
C5_Witness ==
    \E c \in CancelCalls : cn[c].pc = "true" /\ cn[c].seen.status = PROCESSING

\* A step releases a slot: an id leaves an active set, a completed list
\* changes, or the counter drops.
SlotReleased ==
    \/ \E u \in Users : ~(active[u] \subseteq active'[u])
    \/ completed' # completed
    \/ counter' < counter

\* The three effects of one cleanup, together.
ReleasedAsUnit ==
    \E t \in TaskIds, u \in Users :
        /\ active' = [active EXCEPT ![u] = @ \ {t}]
        /\ completed' = [completed EXCEPT ![u] = SeqTake(<<t>> \o @, 100)]
        /\ counter' = counter - 1

\* No record is terminal while its task is still in its owner's active set.
TerminalNotIndexed ==
    \A t \in TaskIds :
        (task[t] # NoRecord /\ task[t].status \in TerminalStatuses)
            => t \notin active[task[t].user_id]

\* C6 as stated: the removal from the active index, the push onto the
\* completed list and the decrement happen in one step, and no state shows a
\* terminal record whose task is still in the active index.
C6_Original ==
    [][(SlotReleased => ReleasedAsUnit) /\ TerminalNotIndexed']_vars

\* C6 as amended: the removal from the active index, the push onto the
\* completed list and the decrement happen in one step (the write of the
\* terminal record is an earlier step of its own).
C6_CleanupUnit ==
    [][SlotReleased => ReleasedAsUnit]_vars

\* C6 witness: a cleanup has run for a task whose record is terminal.
C6_Witness ==
    \E t \in TaskIds :
        /\ task[t] # NoRecord
        /\ task[t].status \in TerminalStatuses
        /\ InList(completed[task[t].user_id], t)
        /\ t \notin active[task[t].user_id]

\* C7: the write of a successful cancel changes only the status of the record
\* it finds (to CANCELLED), its cleanup takes the task out of the owner's
\* active index and lowers the counter by one, and the worker is not touched.
C7_CancelOnlyMarksStatus ==
    [][\A c \in CancelCalls :
          /\ (cn[c].pc = "hset" /\ cn'[c].pc = "cleanup" /\ task[cn[c].task] # NoRecord) =>
                task'[cn[c].task] = [task[cn[c].task] EXCEPT !.status = CANCELLED]
          /\ (cn[c].pc = "cleanup" /\ cn'[c].pc = "true") =>
                /\ cn[c].task \notin active'[cn[c].user]
                /\ counter' = counter - 1
          /\ cn'[c] # cn[c] => wk' = wk]_vars

\* The worker of t reads the record for an update / writes the record back.
WorkerReads(t) == wk[t].upc = "hget" /\ wk'[t] # wk[t]
WorkerWrites(t) == wk[t].upc = "hset" /\ wk'[t] # wk[t]
\* The record of t holds what the worker's current update passed.
HoldsWrite(rec, a) ==
    /\ rec.status = a.status
    /\ a.stage # NoneStr => rec.stage = a.stage
    /\ a.progress # NoneInt => rec.progress = a.progress
    /\ a.result # NoneStr => rec.result = a.result
    /\ a.error_message # NoneStr => rec.error_message = a.error_message

\* C8 as stated: after a cancel of its task, no update of the worker raises,
\* and after its write the record holds the values the update passed.
C8_Original ==
    [][\A t \in TaskIds :
          /\ (Cancelled(t) /\ WorkerReads(t)) => wk'[t].upc = "hset"
          /\ (Cancelled(t) /\ WorkerWrites(t)) =>
                HoldsWrite(task'[t], WorkerArgs(wk[t]))]_vars

\* C8 as amended: after a cancel of its task, no update of the worker that
\* finds the record (it has not expired) raises, and after its write the
\* record holds the values the update passed.
C8_LastWriteWins ==
    [][\A t \in TaskIds :
          /\ (Cancelled(t) /\ WorkerReads(t) /\ task[t] # NoRecord) => wk'[t].upc = "hset"
          /\ (Cancelled(t) /\ WorkerWrites(t)) =>
                HoldsWrite(task'[t], WorkerArgs(wk[t]))]_vars

\* C8 witness: the record of a cancelled task holds the worker's COMPLETED write.
C8_Witness ==
    \E t \in TaskIds :
        Cancelled(t) /\ task[t].status = COMPLETED /\ task[t].result = "result"

\* The step of create call c that ends the per-user check (line 30).
UserCheckStep(c) == cr[c].pc \in {"idle", "hget"} /\ cr'[c].pc \in {"get", "denied429"}
\* With no task of the user finished, the user's admitted tasks are within the limit.
NoneFinishedWithinLimit ==
    \A u \in Users :
        LET mine == {t \in TaskIds : Admitted(t) /\ cr[t].user = u}
        IN (completed[u] = <<>> /\ \A t \in mine : NonTerminal(t))
               => Cardinality(mine) <= MAX_CONCURRENT_TASKS_PER_USER

\* C9: a create_task whose per-user check runs while the user has at least
\* MAX_CONCURRENT_TASKS_PER_USER non-terminal tasks is denied with 429; a
\* denied call changes nothing in the store; and while none of a user's tasks
\* has finished, no more than the limit of that user's calls are admitted.
C9_PerUserDenial ==
    [][/\ \A c \in CreateCalls :
             /\ (UserCheckStep(c) /\ Cardinality(UserNonTerminal(cr'[c].user))
                                        >= MAX_CONCURRENT_TASKS_PER_USER)
                    => cr'[c].pc = "denied429"
             /\ (cr[c].pc # "denied429" /\ cr'[c].pc = "denied429") => UNCHANGED store
       /\ NoneFinishedWithinLimit']_vars

\* C10: a create_task whose global check runs while the store holds at least
\* MAX_GLOBAL_CONCURRENT_TASKS non-terminal tasks is not admitted, and a call
\* denied with 503 changes nothing in the store.
C10_GlobalDenial ==
    [][\A c \in CreateCalls :
          /\ (cr[c].pc = "get" /\ cr'[c].pc # "get"
                /\ Cardinality(AllNonTerminal) >= MAX_GLOBAL_CONCURRENT_TASKS)
                 => cr'[c].pc = "denied503"
          /\ (cr[c].pc # "denied503" /\ cr'[c].pc = "denied503") => UNCHANGED store]_vars

\* C11: an update_task_status call that finds no record for its task id
\* raises and changes nothing, whatever status it was passed: the step that
\* reads the absent record leaves the record absent and leaves the active
\* sets, the completed lists and the global counter as they were, and the
\* call goes on to no write and no cleanup.
UpdateRaisedWorker(t) ==
    /\ wk'[t] = AfterRaise(wk[t])
    /\ wk'[t].upc \notin {"hset", "cleanup"}
UpdateRaisedCancel(c) == cn'[c].pc = "raised"
C11_UpdateAbsentRaises ==
    [][/\ \A t \in TaskIds :
             (wk[t].upc = "hget" /\ task[t] = NoRecord /\ wk'[t] # wk[t])
                 => UpdateRaisedWorker(t) /\ store' = store
       /\ \A c \in CancelCalls :
             (cn[c].pc = "hget" /\ task[cn[c].task] = NoRecord /\ cn'[c] # cn[c])
                 => UpdateRaisedCancel(c) /\ store' = store]_vars
\* The FAILED update of a worker raised on an expired record: the id is still
\* in its user's active set, so no cleanup ran for it.
C11_Witness ==
    \E t \in TaskIds :
        /\ wk[t].phase = "raised"
        /\ task[t] = NoRecord
        /\ t \in active[cr[t].user]
        /\ counter > 0

\* The worker of t leaves its function by an exception in this step.
WorkerRaises(t) == wk[t].phase # "raised" /\ wk'[t].phase = "raised"
\* The step ends a FAILED update of the worker that wrote the record, with
\* the message of the exception caught.
AfterFailedWrite(t) ==
    /\ wk[t].phase = "failed"
    /\ wk[t].upc = "cleanup"
    /\ wk[t].local.status = FAILED
    /\ wk[t].local.error_message = wk[t].exc
    /\ wk'[t].exc = wk[t].exc

\* C12 as stated: a worker in which a step raised leaves by the exception
\* only after it has written status FAILED with the exception's message.
C12_Original ==
    [][\A t \in TaskIds : WorkerRaises(t) => AfterFailedWrite(t)]_vars

\* C12: when a step of the worker raises, the except clause issues a FAILED
\* update carrying the exception's message; if the record is there when that
\* update reads it, the record written has status FAILED and that message and
\* the exception then leaves the worker; if the record is absent at that
\* read, nothing is written and the 404 of the update leaves the worker.
\* In neither case does the worker return normally.
C12_FailedThenRaise ==
    [][\A t \in TaskIds :
          /\ (wk[t].phase = "failed" /\ wk[t].upc = "hset" /\ wk'[t] # wk[t])
                 => /\ task'[t].status = FAILED
                    /\ task'[t].error_message = wk[t].exc
                    /\ wk[t].exc # NoneStr
          /\ WorkerRaises(t)
                 => \/ AfterFailedWrite(t)
                    \/ /\ wk[t].upc = "hget"
                       /\ task[t] = NoRecord
                       /\ wk'[t].exc = NotFoundError
                       /\ store' = store
          /\ (wk[t].phase = "failed" /\ wk'[t].phase # "failed")
                 => wk'[t].phase = "raised"]_vars
\* A worker whose service call raised has written FAILED with the message
\* and has left by the exception.
C12_Witness ==
    \E t \in TaskIds :
        /\ wk[t].phase = "raised"
        /\ wk[t].exc = ServiceError
        /\ task[t] # NoRecord
        /\ task[t].status = FAILED
        /\ task[t].error_message = ServiceError

Dispatched(t) == wk[t].phase # "none"
WorkerEnded(t) == wk[t].phase \in {"done", "raised"}
HasTerminalStatus(t) == task[t] # NoRecord /\ task[t].status \in TerminalStatuses

\* C13 as stated: every task whose worker has been dispatched eventually has
\* a terminal status in its record.
C13_Original ==
    \A t \in TaskIds : Dispatched(t) ~> HasTerminalStatus(t)

\* C13: every task whose worker has been dispatched eventually has a terminal
\* status in its record or has no record any more (it expired before the
\* worker could write one); and once the worker has ended, the record, if
\* there is one, has a terminal status: none is left PENDING or PROCESSING.
C13_TerminalOrExpired ==
    /\ \A t \in TaskIds :
          Dispatched(t) ~> (HasTerminalStatus(t) \/ task[t] = NoRecord)
    /\ [](\A t \in TaskIds :
            WorkerEnded(t) => (HasTerminalStatus(t) \/ task[t] = NoRecord))
\* A worker has ended normally and its task shows COMPLETED.
C13_Witness ==
    \E t \in TaskIds :
        /\ wk[t].phase = "done"
        /\ HasTerminalStatus(t)
        /\ task[t].status = COMPLETED
\* The safety half of C13, for the program with all its create calls.
C13_NotLeftProcessing ==
    \A t \in TaskIds : WorkerEnded(t) => (HasTerminalStatus(t) \/ task[t] = NoRecord)

\* The key of the claim: the first two tokens of the normalised start sentence.
ClaimKey(start_sentence) ==
    LET tokens == PrepareVisualStartWords(start_sentence)
    IN  SubSeq(tokens, 1, IF Len(tokens) < 2 THEN Len(tokens) ELSE 2)
NormalisedWords(paragraph_words) ==
    [i \in 1 .. Len(paragraph_words) |-> Strip(CleanText(paragraph_words[i].text))]
\* The positions (from 1) at which a window of key length exists and equals the key.
KeyWindows(paragraph_words, start_sentence) ==
    LET key == ClaimKey(start_sentence)
        norm == NormalisedWords(paragraph_words)
    IN  {i \in 1 .. (Len(norm) - Len(key) + 1) :
            SubSeq(norm, i, i + Len(key) - 1) = key}

\* C16: when some window of the word slice equals the two-token key, the
\* visual is anchored at the lowest such position: anchoring returns the
\* visual with start_time equal to the start of the word at that position,
\* wherever in the slice the window lies and however many tokens the start
\* sentence has.
C16_AnchorFirstWindow ==
    (fn.op = "anchor" /\ fn.done) =>
        LET windows == KeyWindows(fn.paragraph_words, fn.visual_model.start_sentence)
        IN  windows # {} =>
                LET first == CHOOSE i \in windows : \A j \in windows : i <= j
                IN  /\ fn.out # <<>>
                    /\ fn.out[1].start_time = fn.paragraph_words[first].start
\* The same for start sentences of at most two tokens.
C16_AnchorShortSentence ==
    (fn.op = "anchor" /\ fn.done
        /\ Len(PrepareVisualStartWords(fn.visual_model.start_sentence)) <= KeyTokens) =>
        LET windows == KeyWindows(fn.paragraph_words, fn.visual_model.start_sentence)
        IN  windows # {} =>
                LET first == CHOOSE i \in windows : \A j \in windows : i <= j
                IN  /\ fn.out # <<>>
                    /\ fn.out[1].start_time = fn.paragraph_words[first].start

\* The aligned list has an entry for the index of the generated paragraph.
HasAligned(aligned_results, paragraph) ==
    \E j \in DOMAIN aligned_results :
        aligned_results[j].paragraph_index = paragraph.paragraph_index
\* The two lists differ in length, or some generated index is not aligned.
Mismatch(aligned_results, paragraphs) ==
    \/ Len(aligned_results) # Len(paragraphs)
    \/ \E i \in DOMAIN paragraphs : ~HasAligned(aligned_results, paragraphs[i])

C14_WitnessMissingIndex ==
    /\ fn.op = "merge"
    /\ fn.done
    /\ Len(fn.paragraphs) = Len(fn.aligned_results)
    /\ Mismatch(fn.aligned_results, fn.paragraphs)
    /\ fn.out.raised = AttributeError

\* The entries of the aligned list that carry the index of the paragraph.
AlignedFor(aligned_results, paragraph) ==
    {j \in DOMAIN aligned_results :
        aligned_results[j].paragraph_index = paragraph.paragraph_index}
\* The word slice of an aligned paragraph as word timestamps.
SliceOf(aligned) ==
    [k \in DOMAIN aligned.paragraph_words |->
        [word |-> aligned.paragraph_words[k].text,
         start |-> aligned.paragraph_words[k].start,
         end |-> aligned.paragraph_words[k].end]]

StageRank(stage) ==
    CASE stage = QUEUED -> 0
      [] stage = TRANSCRIBING -> 1
      [] stage = PROCESSING_LLM -> 2
      [] stage = ALIGNING -> 3
      [] stage = STAGE_COMPLETED -> 4

\* C18: no step takes the stage of a record backwards in the order QUEUED,
\* TRANSCRIBING, PROCESSING_LLM, ALIGNING, COMPLETED; the record of a task
\* starts PENDING and QUEUED, and the first update of its worker writes
\* status PROCESSING.
C18_StageMonotone ==
    [][\A t \in TaskIds :
          /\ (task[t] # NoRecord /\ task'[t] # NoRecord)
                 => StageRank(task'[t].stage) >= StageRank(task[t].stage)
          /\ (cr[t].pc = "pipe" /\ cr'[t].pc = "admitted")
                 => task'[t].status = PENDING /\ task'[t].stage = QUEUED
          /\ (wk[t].phase = "transcribing" /\ wk[t].upc = "hset" /\ wk'[t] # wk[t])
                 => task'[t].status = PROCESSING]_vars
\* The first two conjuncts apart from the writes of cancel_task: the
\* worker's own writes never take the stage backwards.
C18_WorkerStageMonotone ==
    [][\A t \in TaskIds :
          (task[t] # NoRecord /\ task'[t] # NoRecord /\ wk'[t] # wk[t])
              => StageRank(task'[t].stage) >= StageRank(task[t].stage)]_vars

\* C19: in every record, result is present only with status COMPLETED,
\* error_message only with status FAILED, and never both.
C19_ResultErrorExclusive ==
    \A t \in TaskIds :
        task[t] # NoRecord =>
            /\ task[t].result # NoneStr => task[t].status = COMPLETED
            /\ task[t].error_message # NoneStr => task[t].status = FAILED
            /\ ~(task[t].result # NoneStr /\ task[t].error_message # NoneStr)
\* The last conjunct alone: in the runs of this model no record holds a
\* result and an error message together.
C19_NeverBoth ==
    \A t \in TaskIds :
        task[t] # NoRecord =>
            ~(task[t].result # NoneStr /\ task[t].error_message # NoneStr)

\* C20: the completed list of a user never holds more than 100 ids; a
\* cleanup puts the id of its task at the head and moves every entry one
\* place down in the same order, and the list grows by one unless it is
\* full, in which case only its last (oldest) entry is dropped.
C20_CompletedCap ==
    /\ [](fn.op = "cleanup" => Len(fn.list) <= CompletedCap)
    /\ [][fn.op = "cleanup" =>
            /\ fn'.list[1] = fn'.last
            /\ Len(fn'.list) =
                  IF Len(fn.list) < CompletedCap THEN Len(fn.list) + 1 ELSE CompletedCap
            /\ \A i \in 2 .. Len(fn'.list) : fn'.list[i] = fn.list[i - 1]]_vars
\* A full list took a new id and its oldest entry, task 1, is gone.
C20_Witness ==
    /\ fn.op = "cleanup"
    /\ fn.pushes > 0
    /\ Len(fn.list) = CompletedCap
    /\ fn.list[1] > CompletedCap
    /\ ~InList(fn.list, 1)

\* A lookup of task t by user u is answered in this step.
Looked(t, u) ==
    /\ fn'.op \in {"status", "result"}
    /\ fn'.task = t
    /\ fn'.user = u
    /\ UNCHANGED <<store, clock, cr, wk, cn>>

\* C21: a status or result lookup answers 404 with no body when the record
\* is absent, 403 with no body when the record belongs to another user, and
\* otherwise the status lookup answers the caller's own record; the result
\* lookup gives a result only for an own record with status COMPLETED (the
\* result of that record) and answers 400 with no body for any other status.
C21_LookupOwnerOnly ==
    [][\A t \in TaskIds, u \in Users :
          Looked(t, u) =>
              /\ task[t] = NoRecord => fn'.out = Response("404", <<>>)
              /\ (task[t] # NoRecord /\ task[t].user_id # u)
                     => fn'.out = Response("403", <<>>)
              /\ fn'.out.body # <<>>
                     => /\ task[t] # NoRecord
                        /\ task[t].user_id = u
                        /\ fn'.out.status_code = "200"
              /\ (fn'.op = "status" /\ task[t] # NoRecord /\ task[t].user_id = u)
                     => fn'.out = Response("200", <<task[t]>>)
              /\ (fn'.op = "result" /\ task[t] # NoRecord /\ task[t].user_id = u)
                     => IF task[t].status = COMPLETED
                        THEN /\ fn'.out.status_code = "200"
                             /\ fn'.out.body[1].result = task[t].result
                        ELSE fn'.out = Response("400", <<>>)]_vars
\* Another user asked for the result of a COMPLETED task and got 403.
C21_Witness ==
    /\ fn.op = "result"
    /\ task[fn.task] # NoRecord
    /\ task[fn.task].status = COMPLETED
    /\ task[fn.task].user_id # fn.user
    /\ fn.out = Response("403", <<>>)

\* C22: every write of an update is the update applied to the record as it
\* is at the write: when a cancel and a worker update of one task overlap,
\* neither writes back a copy read before the other's write, so no field
\* the other wrote is lost.
C22_AtomicUpdate ==
    [][/\ \A t \in TaskIds :
             (WorkerWrites(t) /\ task[t] # NoRecord)
                 => task'[t] = ApplyUpdate(task[t], WorkerArgs(wk[t]))
       /\ \A c \in CancelCalls :
             (cn[c].pc = "hset" /\ cn'[c] # cn[c] /\ task[cn[c].task] # NoRecord)
                 => task'[cn[c].task] = ApplyUpdate(task[cn[c].task], CancelArgs)]_vars

\* The step is the cleanup of a terminal update of task t.
CleanupStep(t) ==
    \/ wk[t].upc = "cleanup" /\ wk'[t] # wk[t]
    \/ \E c \in CancelCalls : cn[c].pc = "cleanup" /\ cn[c].task = t /\ cn'[c] # cn[c]

\* C23: the cleanup of a task runs at most once (it runs only for a task
\* that is still in its owner's active set), and the global counter is never
\* below the number of ids in the active sets and never below zero.
C23_SlotReleasedOnce ==
    [][/\ \A t \in TaskIds : CleanupStep(t) => \E u \in Users : t \in active[u]
       /\ counter' >= 0
       /\ counter' >= Cardinality(Indexed')]_vars

\* No create_task and no update_task_status call is under way for task t.
Quiescent(t) ==
    /\ cr[t].pc \notin {"hget", "get", "pipe"}
    /\ wk[t].upc = "none"
    /\ \A c \in CancelCalls : cn[c].task = t => cn[c].pc \notin {"hget", "hset", "cleanup"}

\* C24: whenever no create_task or update_task_status call is under way for
\* a task that was admitted, the task is in its owner's active set if and
\* only if its record exists with status PENDING or PROCESSING.
C24_IndexedIffNonTerminal ==
    \A t \in TaskIds :
        (Admitted(t) /\ Quiescent(t)) => (t \in active[cr[t].user] <=> NonTerminal(t))
\* One half of C24: a quiescent task in the active set has a record that is
\* PENDING or PROCESSING.
C24_IndexedOnlyIfNonTerminal ==
    \A t \in TaskIds :
        (Admitted(t) /\ Quiescent(t) /\ t \in active[cr[t].user]) => NonTerminal(t)
\* The other half: a quiescent task that is PENDING or PROCESSING is in the
\* active set.
C24_NonTerminalIndexed ==
    \A t \in TaskIds :
        (Admitted(t) /\ Quiescent(t) /\ NonTerminal(t)) => t \in active[cr[t].user]

\* C25: whenever no create_task or update_task_status call is under way, the
\* global counter does not exceed the number of records that exist with
\* status PENDING or PROCESSING; and a create_task is denied with 503 only
\* when it reads a counter that does not exceed that number.
C25_SlotsHeldByNonTerminal ==
    [][/\ (\A t \in TaskIds : Quiescent(t))' => counter' <= Cardinality(AllNonTerminal')
       /\ \A c \in CreateCalls :
             (cr[c].pc = "get" /\ cr'[c].pc = "denied503"
                /\ \A t \in TaskIds \ {c} : Quiescent(t))
                 => Cardinality(AllNonTerminal) >= MAX_GLOBAL_CONCURRENT_TASKS]_vars
\* The second half of C25 alone: no create_task is denied with 503 while
\* fewer than MAX_GLOBAL_CONCURRENT_TASKS records are PENDING or PROCESSING.
C25_NoDenialBelowLimit ==
    [][\A c \in CreateCalls :
          (cr[c].pc = "get" /\ cr'[c].pc = "denied503"
             /\ \A t \in TaskIds \ {c} : Quiescent(t))
              => Cardinality(AllNonTerminal) >= MAX_GLOBAL_CONCURRENT_TASKS]_vars

\* C26: a request in which create_task admitted a task ends only after it
\* has handed the task to a background worker, whether it ends normally or
\* with an error.
C26_AdmittedDispatched ==
    \A t \in TaskIds : cr[t].pc \in {"done", "error"} => Dispatched(t)

\* The awaited call `step` of task t's service call has returned / has been
\* started (it is in flight or has returned).
HasReturned(t, step) ==
    fn[t] # NoCall /\ \E i \in DOMAIN fn[t].log : fn[t].log[i] = step
HasStarted(t, step) ==
    fn[t] # NoCall /\ (step \in fn[t].inflight \/ HasReturned(t, step))
\* The worker of t writes the record with the update of `phase` in this step.
WritesPhase(t, phase) == wk[t].phase = phase /\ WorkerWrites(t)

\* C27: the worker writes stage PROCESSING_LLM no earlier than the start of
\* paragraph generation, and writes stage ALIGNING only when paragraph
\* generation has returned and the alignment call has not.
C27_StageAtBoundary ==
    [][\A t \in TaskIds :
          /\ WritesPhase(t, "llm") => HasStarted(t, GENERATE)
          /\ WritesPhase(t, "aligning")
                 => HasReturned(t, GENERATE) /\ ~HasReturned(t, ALIGN)]_vars
\* The second half of C27 alone.
C27_AligningAfterGeneration ==
    [][\A t \in TaskIds :
          WritesPhase(t, "aligning")
              => HasReturned(t, GENERATE) /\ ~HasReturned(t, ALIGN)]_vars
\* What C27 concludes: while paragraph generation is in flight, the record
\* the worker last wrote does not show stage ALIGNING.
C27_StageShowsStep ==
    \A t \in TaskIds :
        (fn[t] # NoCall /\ GENERATE \in fn[t].inflight /\ task[t] # NoRecord)
            => task[t].stage # ALIGNING

\* C28: in the service call of a task, the alignment call is started only
\* after paragraph generation has returned, the merge runs only after the
\* alignment call has returned, and the worker issues the COMPLETED update
\* only after the merge has given its result; no two calls are in flight
\* together except transcript extraction and paragraph generation, and no
\* call is in flight while the worker is in an update of the record.
C28_PipelineOrdered ==
    \A t \in TaskIds :
        /\ HasStarted(t, ALIGN) => HasReturned(t, GENERATE)
        /\ HasReturned(t, MERGE) => HasReturned(t, ALIGN)
        /\ wk[t].phase \in {"completed", "done"} => HasReturned(t, MERGE)
        /\ fn[t] # NoCall =>
              /\ \/ Cardinality(fn[t].inflight) <= 1
                 \/ fn[t].inflight = {EXTRACT_TEXT, GENERATE}
              /\ wk[t].upc # "none" => fn[t].inflight = {}
\* A worker has written COMPLETED with the result after all the calls and
\* the merge, in the order of the pipeline.
C28_Witness ==
    \E t \in TaskIds :
        /\ wk[t].phase = "done"
        /\ task[t] # NoRecord
        /\ task[t].status = COMPLETED
        /\ task[t].result = "result"
        /\ fn[t] # NoCall
        /\ fn[t].log = <<SAVE_VIDEO, EXTRACT_TEXT, GENERATE, ALIGN, MERGE>>

\* C29: every record in the store carries the expiry it was given at its
\* creation: no step leaves a record without an expiry, and no update,
\* cancel or cleanup changes the expiry of a record that exists.
C29_ExpiryFixed ==
    [][\A t \in TaskIds :
          /\ task'[t] # NoRecord => ttl'[t]
          /\ (task[t] # NoRecord /\ task'[t] # NoRecord) => ttl'[t] = ttl[t]]_vars

\* Every visual reference of the paragraphs names an extracted visual.
ReferencesResolve(paragraphs, processed_visuals) ==
    \A i \in DOMAIN paragraphs :
        paragraphs[i].visual_reference # <<>> =>
            \E j \in DOMAIN processed_visuals :
                processed_visuals[j].visual_index
                    = paragraphs[i].visual_reference[1].visual_index

\* C30: when every visual reference names an extracted visual, the PDF
\* pipeline gives one processed paragraph for each paragraph of the language
\* model, in the same order and with its text, whether or not the paragraph
\* has a visual reference.
C30_AllParagraphsKept ==
    (fn.op = "pdf" /\ fn.done /\ ReferencesResolve(fn.paragraphs, fn.processed_visuals)) =>
        /\ fn.out.raised = NoneStr
        /\ Len(fn.out.value) = Len(fn.paragraphs)
        /\ \A i \in DOMAIN fn.paragraphs :
              /\ fn.out.value[i].text_content = fn.paragraphs[i].paragraph_text
              /\ fn.out.value[i].paragraph_id = fn.paragraphs[i].paragraph_index + 1
\* The same for the answers in which every paragraph has a visual reference.
C30_ReferringParagraphsKept ==
    (/\ fn.op = "pdf"
     /\ fn.done
     /\ ReferencesResolve(fn.paragraphs, fn.processed_visuals)
     /\ \A i \in DOMAIN fn.paragraphs : fn.paragraphs[i].visual_reference # <<>>) =>
        /\ fn.out.raised = NoneStr
        /\ Len(fn.out.value) = Len(fn.paragraphs)
        /\ \A i \in DOMAIN fn.paragraphs :
              /\ fn.out.value[i].text_content = fn.paragraphs[i].paragraph_text
              /\ fn.out.value[i].paragraph_id = fn.paragraphs[i].paragraph_index + 1

====
